---- MODULE Spec2Model ----
(***************************************************************************)
(* Model of slack_bot.py: the SlackHandler class (mention parser, whisper  *)
(* selector, command matcher, dispatcher, the two queues) and the example  *)
(* execution loop of __main__ that drives it.                              *)
(*                                                                         *)
(* Python strings are sequences of characters, so that lower(), strip(),   *)
(* replace(), "in" and the mention regex are computed character by         *)
(* character. An ASCII character is the string of that one character; a    *)
(* character outside ASCII is the string that names its code point, U+     *)
(* followed by four hexadecimal digits in upper case, as in "U+00A0", so   *)
(* that the module is read the same in every character encoding. The       *)
(* texts of the model hold ASCII characters and whitespace characters.     *)
(* Python's None / a missing dict key is the empty tuple None and a        *)
(* present value v is the one-element tuple Some(v).                       *)
(***************************************************************************)
EXTENDS Naturals, Sequences, FiniteSets

VARIABLES
    _id,           \* self._id: None until start() records the bot's user id
    commands,      \* self.commands: the registry, a list of {"command", "description"}
    exact_match,   \* self.exact_match
    command_in,    \* self.command_in: list of message dicts (with the arrival number of each)
    command_out,   \* self.command_out
    slack_events,  \* local of parse_bot_commands: the list rtm_read() returned, kept
                   \* until the loop's next call
    api_calls,     \* history: the chat.* calls issued to the transport, in order
    handled,       \* history: the invocations of handle_command, in order
    printed,       \* history: the entries printed by the loop's drain of command_out
    nread,         \* history: number of transport events read so far
    raised,        \* the exception that left the program, or NoException
    pc             \* position of the __main__ loop

vars == <<_id, commands, exact_match, command_in, command_out, slack_events,
          api_calls, handled, printed, nread, raised, pc>>

(***************************************************************************)
(* Bounds of the model.                                                    *)
(***************************************************************************)
\* total number of inputs a run takes from outside: the transport events
\* rtm_read() delivers (one read may deliver all that remain) and the calls
\* of send_message
MaxEvents == 3

(***************************************************************************)
(* Python values.                                                          *)
(***************************************************************************)
None == <<>>
Some(v) == <<v>>
Val(o) == o[1]

\* str.lower() on the ASCII letters
UpperCase == <<"A","B","C","D","E","F","G","H","I","J","K","L","M",
               "N","O","P","Q","R","S","T","U","V","W","X","Y","Z">>
LowerCase == <<"a","b","c","d","e","f","g","h","i","j","k","l","m",
               "n","o","p","q","r","s","t","u","v","w","x","y","z">>
LowerChar(c) ==
    IF \E i \in 1..Len(UpperCase) : UpperCase[i] = c
    THEN LowerCase[CHOOSE i \in 1..Len(UpperCase) : UpperCase[i] = c]
    ELSE c
RECURSIVE Lower(_)
Lower(s) == IF s = <<>> THEN <<>> ELSE <<LowerChar(Head(s))>> \o Lower(Tail(s))

\* str.strip(): the 29 characters for which str.isspace() is true. In ASCII:
\* space, tab, line feed, vertical tab, form feed, carriage return and the four
\* separators U+001C to U+001F. Outside ASCII: next line, no-break space,
\* ogham space mark, the spaces U+2000 to U+200A, line and paragraph
\* separator, narrow no-break space, medium mathematical space and
\* ideographic space.
Whitespace ==
    {" ", "\t", "\n", "", "\f", "\r", "", "", "", ""}
    \cup {"U+0085", "U+00A0", "U+1680", "U+2000", "U+2001", "U+2002",
          "U+2003", "U+2004", "U+2005", "U+2006", "U+2007", "U+2008",
          "U+2009", "U+200A", "U+2028", "U+2029", "U+202F", "U+205F",
          "U+3000"}
Strip(s) ==
    IF \A i \in 1..Len(s) : s[i] \in Whitespace
    THEN <<>>
    ELSE LET first == CHOOSE i \in 1..Len(s) :
                          /\ s[i] \notin Whitespace
                          /\ \A j \in 1..(i-1) : s[j] \in Whitespace
             last  == CHOOSE i \in 1..Len(s) :
                          /\ s[i] \notin Whitespace
                          /\ \A j \in (i+1)..Len(s) : s[j] \in Whitespace
         IN  SubSeq(s, first, last)

\* sub in s
Contains(sub, s) ==
    \E i \in 0..(Len(s) - Len(sub)) : SubSeq(s, i+1, i+Len(sub)) = sub

\* s.replace(old, ""): every non-overlapping occurrence of old, left to right
RECURSIVE ReplaceWithEmpty(_, _)
ReplaceWithEmpty(s, old) ==
    IF Len(s) < Len(old) \/ Len(old) = 0 THEN s
    ELSE IF SubSeq(s, 1, Len(old)) = old
         THEN ReplaceWithEmpty(SubSeq(s, Len(old)+1, Len(s)), old)
         ELSE <<Head(s)>> \o ReplaceWithEmpty(Tail(s), old)

(***************************************************************************)
(* String literals of the source.                                          *)
(***************************************************************************)
WHISPER == <<"w","h","i","s","p","e","r">>
HELP == <<"h","e","l","p">>
RunningResponse == <<"R","u","n","n","i","n","g"," ","c","o","m","m","a","n","d",".",".",".">>
\* "Not sure what you mean. Try *{}*.".format("help")
default_response ==
    <<"N","o","t"," ","s","u","r","e"," ","w","h","a","t"," ","y","o","u"," ",
      "m","e","a","n","."," ","T","r","y"," ","*">> \o HELP \o <<"*",".">>

(***************************************************************************)
(* parse_direct_mention: re.search of _mention_regex in the text.          *)
(* The caret anchors the match at position 1, after the two characters     *)
(* less-than and at-sign; group 1 is empty, or W or U followed by the      *)
(* shortest non-empty run of non-newline characters that a greater-than    *)
(* follows; group 2 is the rest of the line (dot matches no newline).      *)
(***************************************************************************)
\* the lazy run of group 1: the characters before position j are consumed (each
\* must not be a newline); the run ends at the first greater-than found at j
RECURSIVE LazyRun(_, _)
LazyRun(text, j) ==
    IF j > Len(text) \/ text[j-1] = "\n" THEN 0
    ELSE IF text[j] = ">" THEN j
    ELSE LazyRun(text, j + 1)

\* index of the greater-than that closes group 1, or 0 when the regex does not match
MentionClose(text) ==
    IF Len(text) < 3 \/ text[1] # "<" \/ text[2] # "@" THEN 0
    ELSE IF text[3] = ">" THEN 3
    ELSE IF text[3] \notin {"W", "U"} THEN 0
    ELSE LazyRun(text, 5)

\* group 2 from position from: the characters up to the first newline
RestOfLine(text, from) ==
    LET stops == {j \in from..Len(text) : text[j] = "\n"}
        end   == IF stops = {} THEN Len(text)
                 ELSE (CHOOSE j \in stops : \A k \in stops : j <= k) - 1
    IN  SubSeq(text, from, end)

\* faulty variant: the regex without its anchor finds the first mention anywhere
RECURSIVE parse_direct_mention_Unanchored(_)
parse_direct_mention_Unanchored(message_text) ==
    IF message_text = <<>> THEN <<None, None>>
    ELSE LET close == MentionClose(message_text)
         IN  IF close = 0 THEN parse_direct_mention_Unanchored(Tail(message_text))
             ELSE <<Some(SubSeq(message_text, 3, close - 1)),
                    Some(Strip(RestOfLine(message_text, close + 1)))>>

\* returns <<group(1), group(2).strip()>> as Some values, or <<None, None>>
parse_direct_mention(message_text) ==
    LET close == MentionClose(message_text)
    IN  IF close = 0 THEN <<None, None>>
        ELSE <<Some(SubSeq(message_text, 3, close - 1)),
               Some(Strip(RestOfLine(message_text, close + 1)))>>

(***************************************************************************)
(* parse_whisper                                                           *)
(***************************************************************************)
\* faulty variant: only the first occurrence of the keyword is removed
parse_whisper_FirstOnly(message_text) ==
    LET RECURSIVE CutFirst(_)
        CutFirst(s) ==
            IF Len(s) < Len(WHISPER) THEN s
            ELSE IF SubSeq(s, 1, Len(WHISPER)) = WHISPER
                 THEN SubSeq(s, Len(WHISPER)+1, Len(s))
                 ELSE <<Head(s)>> \o CutFirst(Tail(s))
    IN  IF Contains(WHISPER, message_text)
        THEN <<TRUE, Strip(CutFirst(message_text))>>
        ELSE <<FALSE, message_text>>

parse_whisper(message_text) ==
    IF Contains(WHISPER, message_text)
    THEN <<TRUE, Strip(ReplaceWithEmpty(message_text, WHISPER))>>
    ELSE <<FALSE, message_text>>

(***************************************************************************)
(* match_command                                                           *)
(***************************************************************************)
\* faulty variant: the listing is built from the last registry entry to the first
RECURSIVE HelpListing_Reversed(_)
HelpListing_Reversed(cmds) ==
    IF cmds = <<>> THEN <<>>
    ELSE HelpListing_Reversed(Tail(cmds))
         \o <<"\n","*">> \o Head(cmds).command \o <<"*",":">>
         \o <<"\n">> \o Head(cmds).description \o <<"\n">>

\* the response built by the "help" branch, over the registry in order
RECURSIVE HelpListing(_)
HelpListing(cmds) ==
    IF cmds = <<>> THEN <<>>
    ELSE <<"\n","*">> \o Head(cmds).command \o <<"*",":">>
         \o <<"\n">> \o Head(cmds).description \o <<"\n">>
         \o HelpListing(Tail(cmds))

\* faulty variant: the exact branch accepts a name followed by more text
EntryMatches_Prefix(user_command, entry, exact) ==
    IF exact
    THEN /\ Len(user_command) >= Len(entry.command)
         /\ SubSeq(user_command, 1, Len(entry.command)) = Lower(entry.command)
    ELSE Contains(Lower(entry.command), user_command)

\* faulty variant: the substring branch compares the name as registered
EntryMatches_CaseSensitive(user_command, entry, exact) ==
    IF exact THEN user_command = Lower(entry.command)
    ELSE Contains(entry.command, user_command)

\* the test of one registry entry, in the exact and in the substring branch
EntryMatches(user_command, entry, exact) ==
    IF exact THEN user_command = Lower(entry.command)
    ELSE Contains(Lower(entry.command), user_command)

\* faulty variant: the substring branch is taken whatever the mode
match_command_IgnoresMode(user_command, cmds, exact) ==
    IF user_command = HELP THEN Some(HelpListing(cmds))
    ELSE IF \E i \in 1..Len(cmds) : EntryMatches(user_command, cmds[i], FALSE)
         THEN Some(RunningResponse)
         ELSE None

\* returns None or Some(response)
match_command(user_command, cmds, exact) ==
    IF user_command = HELP THEN Some(HelpListing(cmds))
    ELSE IF \E i \in 1..Len(cmds) : EntryMatches(user_command, cmds[i], exact)
         THEN Some(RunningResponse)
         ELSE None

(***************************************************************************)
(* handle_command on one message dict. The dict is mutated in place: its   *)
(* whisper key is set and its command replaced by the cleaned text.        *)
(* Returns the dict after the call, the transport call issued, and whether *)
(* the dict is appended to command_out.                                    *)
(***************************************************************************)
\* if not response: None and the empty string are both false
Falsy(response) == response = None \/ response = Some(<<>>)

\* faulty variant: the whisper flag is not consulted
SendResponse_AlwaysReply(message, response) ==
    [method |-> "chat.postMessage", channel |-> message.channel,
     text |-> response, user |-> None, thread_ts |-> Some(message.ts)]

\* lines 130-141: the one transport call that delivers the response
SendResponse(message, response) ==
    IF Val(message.whisper)
    THEN \* send_ephemeral_message(channel, user, message)
         [method |-> "chat.postEphemeral", channel |-> message.channel,
          text |-> response, user |-> Some(message.user), thread_ts |-> None]
    ELSE \* reply(channel, thread_ts, message)
         [method |-> "chat.postMessage", channel |-> message.channel,
          text |-> response, user |-> None, thread_ts |-> Some(message.ts)]

\* send_message: the call it issues, with neither user nor thread_ts
send_message(channel, message) ==
    [method |-> "chat.postMessage", channel |-> channel,
     text |-> message, user |-> None, thread_ts |-> None]

\* faulty variant: the help test is lost
ShouldLog_ResponseOnly(command, response) ==
    response # default_response

\* line 143: whether the message is appended to command_out
ShouldLog(command, response) ==
    command # HELP /\ response # default_response

\* faulty variant: the dict is left as it was enqueued, without the whisper key
handle_command_NoMutation(message, cmds, exact) ==
    LET user_command == Strip(Lower(message.command))
        pw           == parse_whisper(user_command)
        after        == [message EXCEPT !.whisper = Some(pw[1]), !.command = pw[2]]
        matched      == match_command(after.command, cmds, exact)
        response     == IF Falsy(matched) THEN default_response ELSE Val(matched)
    IN  [message |-> message,
         call    |-> SendResponse(after, response),
         log     |-> ShouldLog(after.command, response)]

handle_command(message, cmds, exact) ==
    LET user_command == Strip(Lower(message.command))
        pw           == parse_whisper(user_command)
        after        == [message EXCEPT !.whisper = Some(pw[1]), !.command = pw[2]]
        matched      == match_command(after.command, cmds, exact)
        response     == IF Falsy(matched) THEN default_response ELSE Val(matched)
    IN  [message |-> after,
         call    |-> SendResponse(after, response),
         log     |-> ShouldLog(after.command, response)]

(***************************************************************************)
(* process_command_in: a for loop over self.command_in that removes from   *)
(* the list it iterates. The list iterator is an index i into the live     *)
(* list; list.remove deletes the first element equal (==) to its argument. *)
(***************************************************************************)
NoException == "none"
ReadFailed == "rtm_read raised"
SendFailed == "api_call raised"
AttributeError == "AttributeError"
ConnectFailed == "rtm_connect raised"
KeyError == "KeyError"

\* faulty variant: the removal after handling is lost
RemoveFirst_Nothing(q, m) == q

\* list.remove(x) on dicts: the first element whose dict equals x
RemoveFirst(q, m) ==
    IF \E j \in 1..Len(q) : q[j].msg = m
    THEN LET j == CHOOSE k \in 1..Len(q) :
                      q[k].msg = m /\ \A l \in 1..(k-1) : q[l].msg # m
         IN  SubSeq(q, 1, j-1) \o SubSeq(q, j+1, Len(q))
    ELSE q

\* the loop from iterator index i (0-based) on; the failAt-th transport call
\* of this drain raises (0: none does)
RECURSIVE ProcessLoop(_, _, _, _, _)
ProcessLoop(st, i, cmds, exact, failAt) ==
    IF i >= Len(st.command_in) THEN st
    ELSE LET entry   == st.command_in[i+1]
             h       == handle_command(entry.msg, cmds, exact)
             mutated == [entry EXCEPT !.msg = h.message]
             q1      == [st.command_in EXCEPT ![i+1] = mutated]
             calls1  == Append(st.api_calls, h.call)
             hist1   == Append(st.handled, entry)
         IN  IF Len(calls1) - st.calls0 = failAt
             THEN [st EXCEPT !.command_in = q1, !.api_calls = calls1,
                             !.handled = hist1, !.raised = SendFailed]
             ELSE ProcessLoop(
                      [st EXCEPT !.command_in = RemoveFirst(q1, mutated.msg),
                                 !.command_out = IF h.log THEN Append(st.command_out, mutated)
                                                 ELSE st.command_out,
                                 !.api_calls = calls1,
                                 !.handled = hist1],
                      i + 1, cmds, exact, failAt)

\* faulty variant: the iteration starts at the second element
process_command_in_SkipFirst(q, out, calls, hist, cmds, exact, failAt) ==
    ProcessLoop([command_in |-> q, command_out |-> out, api_calls |-> calls,
                 handled |-> hist, raised |-> NoException, calls0 |-> Len(calls)],
                1, cmds, exact, failAt)

process_command_in(q, out, calls, hist, cmds, exact, failAt) ==
    ProcessLoop([command_in |-> q, command_out |-> out, api_calls |-> calls,
                 handled |-> hist, raised |-> NoException, calls0 |-> Len(calls)],
                0, cmds, exact, failAt)

(***************************************************************************)
(* parse_bot_commands on the events one rtm_read() returned.               *)
(***************************************************************************)
\* the loop over slack_events; uid numbers the appended entries in arrival order
RECURSIVE ParseLoop(_, _, _, _)
ParseLoop(st, events, id, uid) ==
    IF events = <<>> THEN st
    ELSE LET event == Head(events)
             pdm   == parse_direct_mention(event.text)
         IN  IF event.type = "message" /\ ~event.has_subtype /\ pdm[1] = id
             THEN IF pdm[2] = None
                  THEN \* message.lower() on None
                       [st EXCEPT !.raised = AttributeError]
                  ELSE ParseLoop(
                           [st EXCEPT !.command_in =
                                Append(st.command_in,
                                       [msg |-> [channel |-> event.channel,
                                                 ts      |-> event.ts,
                                                 user    |-> event.user,
                                                 command |-> Lower(Val(pdm[2])),
                                                 whisper |-> None],
                                        uid |-> uid])],
                           Tail(events), id, uid + 1)
             ELSE ParseLoop(st, Tail(events), id, uid)

parse_bot_commands(q, events, id, uid) ==
    ParseLoop([command_in |-> q, raised |-> NoException], events, id, uid)

(***************************************************************************)
(* Inputs: the registries a handler is constructed with, the identity the  *)
(* transport reports, and the events rtm_read() can deliver.               *)
(***************************************************************************)
BotUser == <<"U","1">>
OtherUser == <<"W","2">>
\* an identity whose first character is neither W nor U
BotB == <<"B","1">>
MentionOf(id) == <<"<","@">> \o id \o <<">">>

DO == <<"d","o">>
DoSomething == <<"d","o"," ","s","o","m","e","t","h","i","n","g">>

\* the registry of __main__, an empty registry, and one in which a name extends
\* another, a name is capitalised and an entry is named help
Registries ==
    { <<[command |-> DO, description |-> DoSomething]>>,
      <<>>,
      <<[command |-> DO, description |-> <<"a">>],
        [command |-> DO \o <<"x">>, description |-> <<"b">>],
        [command |-> <<"G","o">>, description |-> <<"c">>],
        [command |-> HELP, description |-> <<"d">>]>> }

\* the identities auth.test can report
BotIds == {BotUser, BotB}

Event(type, sub, text, channel, ts, user) ==
    [type |-> type, has_subtype |-> sub, text |-> text,
     channel |-> channel, ts |-> ts, user |-> user]

\* a command; a command with arguments whose second line asks for a whisper; a
\* whispered help with the keyword twice; a mention that is not at the start; a
\* command that mentions the identity B1 (to the handler U1 a mention of another
\* user, as the commands above are to the handler B1); an edited message; an
\* event that is no message
Events ==
    { Event("message", FALSE, MentionOf(BotUser) \o <<" ">> \o DO, "C1", "1.1", "UA"),
      Event("message", FALSE,
            MentionOf(BotUser) \o <<" ","D","o"," ","I","t","\n">> \o WHISPER, "C2", "1.2", "UB"),
      Event("message", FALSE,
            MentionOf(BotUser) \o <<" ">> \o WHISPER \o <<" ">> \o HELP \o <<" ">> \o WHISPER,
            "C1", "1.3", "UA"),
      Event("message", FALSE, <<"h","i"," ">> \o MentionOf(BotUser), "C1", "1.4", "UB"),
      Event("message", FALSE, MentionOf(BotB) \o <<" ">> \o DO, "C2", "1.5", "UA"),
      Event("message", TRUE, MentionOf(BotUser) \o <<" ">> \o DO, "C1", "1.6", "UB"),
      Event("user_typing", FALSE, MentionOf(BotUser) \o <<" ">> \o DO, "C1", "1.7", "UA") }

\* the lists of at most n events
RECURSIVE EventLists(_)
EventLists(n) ==
    IF n = 0 THEN {<<>>}
    ELSE LET shorter == EventLists(n - 1)
         IN  shorter \cup {Append(l, e) : l \in shorter, e \in Events}

\* what one rtm_read() can return when n events remain
AllEventLists == EventLists(MaxEvents)
Readable(n) == {l \in AllEventLists : Len(l) <= n}

\* the arguments send_message is called with
DirectChannels == {"C9"}
DirectTexts == {<<"h","i">>}

\* a call as send_message issues it: chat.postMessage without thread_ts
DirectCall(c) == c.method = "chat.postMessage" /\ c.thread_ts = None

\* history: the number of calls send_message has issued
NumDirect == Len(SelectSeq(api_calls, DirectCall))

\* arrival number of the next entry appended to command_in
NextUid ==
    1 + Cardinality({command_in[i].uid : i \in 1..Len(command_in)}
                    \cup {handled[i].uid : i \in 1..Len(handled)})

(***************************************************************************)
(* The state machine.                                                      *)
(***************************************************************************)
\* SlackHandler(token, commands, exact)
Init ==
    /\ _id = None
    /\ commands \in Registries
    /\ exact_match \in BOOLEAN
    /\ command_in = <<>>
    /\ command_out = <<>>
    /\ slack_events = <<>>
    /\ api_calls = <<>>
    /\ handled = <<>>
    /\ printed = <<>>
    /\ nread = 0
    /\ raised = NoException
    /\ pc = "new"

\* client.start()
Start ==
    /\ pc = "new"
    /\ \E id \in BotIds : _id' = Some(id)
    /\ pc' = "parse"
    /\ UNCHANGED <<commands, exact_match, command_in, command_out, slack_events,
                   api_calls, handled, printed, nread, raised>>

\* client.start() ends with an exception: rtm_connect raises, auth.test raises,
\* or the answer of auth.test holds no user_id; _id is not assigned
StartFails ==
    /\ pc = "new"
    /\ raised' \in {ConnectFailed, SendFailed, KeyError}
    /\ pc' = "crashed"
    /\ UNCHANGED <<_id, commands, exact_match, command_in, command_out, slack_events,
                   api_calls, handled, printed, nread>>

\* client.parse_bot_commands(): in the loop, or on a handler not yet started
ParseBotCommands ==
    /\ pc \in {"new", "parse"}
    /\ \E events \in Readable(MaxEvents - nread - NumDirect) :
          LET r == parse_bot_commands(command_in, events, _id, NextUid)
          IN  /\ slack_events' = events
              /\ nread' = nread + Len(events)
              /\ command_in' = r.command_in
              /\ raised' = r.raised
              /\ pc' = IF r.raised # NoException THEN "crashed"
                       ELSE IF pc = "new" THEN "new" ELSE "process"
    /\ UNCHANGED <<_id, commands, exact_match, command_out, api_calls, handled, printed>>

\* faulty variant: the exception of rtm_read() is caught and the loop goes on
ReadFails_Caught ==
    /\ pc \in {"new", "parse"}
    /\ raised' = ReadFailed
    /\ pc' = IF pc = "new" THEN "new" ELSE "sleep"
    /\ UNCHANGED <<_id, commands, exact_match, command_in, command_out, slack_events,
                   api_calls, handled, printed, nread>>

\* rtm_read() raises, in the loop or on a handler not yet started
ReadFails ==
    /\ pc \in {"new", "parse"}
    /\ raised' = ReadFailed
    /\ pc' = "crashed"
    /\ UNCHANGED <<_id, commands, exact_match, command_in, command_out, slack_events,
                   api_calls, handled, printed, nread>>

\* faulty variant: handling the queue uses up the registry
ProcessCommandIn_ClearsRegistry ==
    /\ pc = "process"
    /\ \E failAt \in 0..Len(command_in) :
          LET r  == process_command_in(command_in, command_out, api_calls, handled,
                                      commands, exact_match, failAt)
          IN  /\ failAt > 0 => r.raised # NoException
              /\ command_in' = r.command_in
              /\ command_out' = r.command_out
              /\ api_calls' = r.api_calls
              /\ handled' = r.handled
              /\ raised' = r.raised
              /\ pc' = IF r.raised # NoException THEN "crashed" ELSE "drain"
    /\ slack_events' = <<>>
    /\ commands' = <<>>
    /\ UNCHANGED <<_id, exact_match, printed, nread>>

\* client.process_command_in(); failAt > 0: that transport call of the drain raises
ProcessCommandIn ==
    /\ pc = "process"
    /\ \E failAt \in 0..Len(command_in) :
          LET r  == process_command_in(command_in, command_out, api_calls, handled,
                                      commands, exact_match, failAt)
          IN  /\ failAt > 0 => r.raised # NoException
              /\ command_in' = r.command_in
              /\ command_out' = r.command_out
              /\ api_calls' = r.api_calls
              /\ handled' = r.handled
              /\ raised' = r.raised
              /\ pc' = IF r.raised # NoException THEN "crashed" ELSE "drain"
    /\ slack_events' = <<>>
    /\ UNCHANGED <<_id, commands, exact_match, printed, nread>>

\* faulty variant: the log is popped from its end, pop() for pop(0)
DrainCommandOut_PopsLast ==
    LET RECURSIVE Reversed(_)
        Reversed(q) == IF q = <<>> THEN <<>> ELSE Reversed(Tail(q)) \o <<Head(q)>>
    IN  /\ pc = "drain"
        /\ printed' = printed \o Reversed(command_out)
        /\ command_out' = <<>>
        /\ pc' = "sleep"
        /\ UNCHANGED <<_id, commands, exact_match, command_in, slack_events,
                       api_calls, handled, nread, raised>>

\* while client.command_out: print(client.command_out.pop(0))
DrainCommandOut ==
    /\ pc = "drain"
    /\ printed' = printed \o command_out
    /\ command_out' = <<>>
    /\ pc' = "sleep"
    /\ UNCHANGED <<_id, commands, exact_match, command_in, slack_events,
                   api_calls, handled, nread, raised>>

\* time.sleep(1), then the next iteration
Sleep ==
    /\ pc = "sleep"
    /\ pc' = "parse"
    /\ UNCHANGED <<_id, commands, exact_match, command_in, command_out, slack_events,
                   api_calls, handled, printed, nread, raised>>

\* client.send_message(channel, message), a public method the loop of __main__
\* does not call: a caller of the class can, at any point of the run. One
\* chat.postMessage call is issued; fails: the call raises.
SendMessage ==
    /\ pc # "crashed"
    /\ nread + NumDirect < MaxEvents
    /\ \E channel \in DirectChannels : \E message \in DirectTexts : \E fails \in BOOLEAN :
          /\ api_calls' = Append(api_calls, send_message(channel, message))
          /\ raised' = IF fails THEN SendFailed ELSE raised
          /\ pc' = IF fails THEN "crashed" ELSE pc
    /\ UNCHANGED <<_id, commands, exact_match, command_in, command_out, slack_events,
                   handled, printed, nread>>

Next ==
    \/ Start
    \/ StartFails
    \/ SendMessage
    \/ ParseBotCommands
    \/ ReadFails
    \/ ProcessCommandIn
    \/ DrainCommandOut
    \/ Sleep

Spec == Init /\ [][Next]_vars

\* The while True loop of __main__ is sequential and nothing in it waits on
\* another process: control leaves every statement it reaches, to the next
\* statement or with an exception. At each position the steps of Next are the
\* only steps, so this is weak fairness of the statement at that position.
Positions == {"new", "parse", "process", "drain", "sleep", "crashed"}
ControlLeaves(p) == pc = p /\ pc' \in Positions \ {p}
LiveSpec ==
    /\ Init /\ [][Next]_vars
    /\ \A p \in Positions \ {"crashed"} : WF_pc(ControlLeaves(p))

(***************************************************************************)
(* Properties.                                                             *)
(***************************************************************************)
HandledUids == {handled[k].uid : k \in 1..Len(handled)}
QueuedUids == {command_in[k].uid : k \in 1..Len(command_in)}

\* the calls handle_command issued, in order: all calls but those of send_message
HandlerCall(c) == ~DirectCall(c)
HandlerCalls == SelectSeq(api_calls, HandlerCall)

\* the exception that ended the run was raised by the send of handle_command
FailedInHandler ==
    /\ raised = SendFailed
    /\ api_calls # <<>>
    /\ HandlerCall(api_calls[Len(api_calls)])
    /\ pc = "crashed"

\* the step is a call of send_message: one call without thread_ts is appended
IsSendMessage ==
    /\ Len(api_calls') = Len(api_calls) + 1
    /\ DirectCall(api_calls'[Len(api_calls')])

\* handle_command ran to its end on handled[k]: the call it issued did not raise
Completed(k) == ~(FailedInHandler /\ k = Len(handled))

\* C1: events are handled in arrival order: handle_command is invoked on an
\* earlier-appended event before it is invoked on a later-appended one.
C1_ArrivalOrder ==
    \A i, j \in 1..Len(handled) : i < j => handled[i].uid < handled[j].uid

\* C2: the drain step empties the inbound queue: whenever process_command_in
\* has returned, command_in is empty.
C2_DrainEmpties ==
    pc = "drain" => command_in = <<>>

\* C3: no event is handled twice, and once process_command_in has returned no
\* handled event is still in command_in.
C3_OnceAndRemoved ==
    /\ \A i, j \in 1..Len(handled) : i # j => handled[i].uid # handled[j].uid
    /\ raised = NoException => HandledUids \cap QueuedUids = {}

\* C3 witness: a drain has returned after handling one of two structurally
\* identical queued events, the other still waiting
C3_Witness ==
    /\ pc = "drain"
    /\ \E k \in 1..Len(handled) : \E l \in 1..Len(command_in) :
          /\ handled[k].msg = [command_in[l].msg EXCEPT !.whisper = None]
          /\ handled[k].uid # command_in[l].uid

\* C4: no silent drops: with the loop cycling and no transport call failing,
\* every event appended to command_in is eventually passed to handle_command.
C4_NoSilentDrop ==
    \A u \in 1..MaxEvents :
        (u \in QueuedUids) ~> (u \in HandledUids \/ raised # NoException)

\* C4 witness: an event a drain passed over has been handled by a later drain,
\* after an event that arrived behind it
C4_Witness ==
    \E i, j \in 1..Len(handled) : i < j /\ handled[i].uid > handled[j].uid

\* the text starts with the mention token of identity id
BeginsWithMentionOf(text, id) ==
    /\ Len(text) >= Len(id) + 3
    /\ SubSeq(text, 1, Len(id) + 3) = MentionOf(id)

Actionable(event, id) ==
    /\ event.type = "message"
    /\ ~event.has_subtype
    /\ BeginsWithMentionOf(event.text, id)

\* the text that follows the mention token of identity id, trimmed and in
\* lower case
TextAfterMention(text, id) ==
    Lower(Strip(SubSeq(text, Len(id) + 4, Len(text))))

\* one entry per actionable event, in the order read, numbered from uid on,
\* carrying the whole text after the mention
RECURSIVE ExpectedEntries(_, _, _)
ExpectedEntries(events, id, uid) ==
    IF events = <<>> THEN <<>>
    ELSE LET event == Head(events)
         IN  IF Actionable(event, id)
             THEN <<[msg |-> [channel |-> event.channel, ts |-> event.ts,
                              user |-> event.user,
                              command |-> TextAfterMention(event.text, id),
                              whisper |-> None],
                     uid |-> uid]>>
                  \o ExpectedEntries(Tail(events), id, uid + 1)
             ELSE ExpectedEntries(Tail(events), id, uid)

\* C5: once start has recorded the bot identity, parse_bot_commands appends one
\* entry (channel, ts, user, lower-cased remainder of the text) for exactly
\* the events of type message without subtype whose text begins with a
\* mention of the bot's identity, in the order read, and nothing for any
\* other event.
C5_EnqueueIffActionable ==
    [][(pc = "parse" /\ pc' = "process")
         => command_in' = command_in \o ExpectedEntries(slack_events', Val(_id), NextUid)]_vars

\* C5 witness: a read that held an actionable event and events of each other
\* kind has been parsed
C5_Witness ==
    /\ pc = "process"
    /\ \E i \in 1..Len(slack_events) : Actionable(slack_events[i], Val(_id))
    /\ \E i \in 1..Len(slack_events) :
          slack_events[i].type = "message" /\ ~slack_events[i].has_subtype
          /\ ~Actionable(slack_events[i], Val(_id))
    /\ \E i \in 1..Len(slack_events) : slack_events[i].has_subtype
    /\ command_in # <<>>

\* a plain message whose text does not begin with a mention
PlainNoMention(event) ==
    /\ event.type = "message"
    /\ ~event.has_subtype
    /\ parse_direct_mention(event.text) = <<None, None>>

RECURSIVE WithoutPlainNoMention(_)
WithoutPlainNoMention(events) ==
    IF events = <<>> THEN <<>>
    ELSE IF PlainNoMention(Head(events)) THEN WithoutPlainNoMention(Tail(events))
         ELSE <<Head(events)>> \o WithoutPlainNoMention(Tail(events))

\* C6: a plain message whose text does not begin with a mention is ignored in
\* every state of the handler, started or not: parse_bot_commands returns
\* normally and leaves command_in as the read without that message leaves it.
C6_NoMentionIgnored ==
    [][(/\ pc \in {"new", "parse"}
        /\ nread' > nread
        /\ \E i \in 1..Len(slack_events') : PlainNoMention(slack_events'[i]))
         => /\ raised' = NoException
            /\ command_in' =
                 parse_bot_commands(command_in, WithoutPlainNoMention(slack_events'),
                                    _id, NextUid).command_in]_vars

\* C7: each call of handle_command issues exactly one transport send: an
\* ephemeral message to (channel, user) if the command text contains the
\* whisper keyword, otherwise a threaded reply to (channel, ts); never a
\* message without thread_ts.
C7_OneSend ==
    /\ Len(HandlerCalls) = Len(handled)
    /\ \A k \in 1..Len(handled) :
          LET m == handled[k].msg
              c == HandlerCalls[k]
          IN  IF Contains(WHISPER, m.command)
              THEN /\ c.method = "chat.postEphemeral"
                   /\ c.channel = m.channel
                   /\ c.user = Some(m.user)
                   /\ c.thread_ts = None
              ELSE /\ c.method = "chat.postMessage"
                   /\ c.channel = m.channel
                   /\ c.thread_ts = Some(m.ts)
                   /\ c.user = None

\* C7 witness: both kinds of send have been issued
C7_Witness ==
    /\ \E k \in 1..Len(HandlerCalls) : HandlerCalls[k].method = "chat.postEphemeral"
    /\ \E k \in 1..Len(HandlerCalls) : HandlerCalls[k].method = "chat.postMessage"

\* the command of handled[k]: as enqueued, or as cleaned by handle_command
CleanedCommand(command) == parse_whisper(Strip(Lower(command)))[2]
CommandOf(k, original) ==
    IF original THEN handled[k].msg.command ELSE CleanedCommand(handled[k].msg.command)

\* the arrival numbers of the events the logging rule selects, in handling order
RECURSIVE ExpectedLog(_, _)
ExpectedLog(k, original) ==
    IF k = 0 THEN <<>>
    ELSE LET rest == ExpectedLog(k - 1, original)
         IN  IF /\ Completed(k)
                /\ CommandOf(k, original) # HELP
                /\ HandlerCalls[k].text # default_response
             THEN Append(rest, handled[k].uid)
             ELSE rest

RECURSIVE Uids(_)
Uids(q) == IF q = <<>> THEN <<>> ELSE <<Head(q).uid>> \o Uids(Tail(q))

\* everything ever appended to command_out, in append order
AllLogged == printed \o command_out

\* C8 as stated: handle_command appends the event to command_out exactly when
\* its command as enqueued (before the whisper keyword is stripped) was not
\* help and the response sent was not the default response.
C8_LogIffOriginalNotHelp ==
    Uids(AllLogged) = ExpectedLog(Len(handled), TRUE)

\* C8 amended: handle_command appends the event to command_out exactly when
\* its cleaned command (whisper keyword stripped, trimmed) is not help and the
\* response sent was not the default response.
C8_LogIffCleanedNotHelp ==
    Uids(AllLogged) = ExpectedLog(Len(handled), FALSE)

\* C8 witness: a whispered help answered with the listing was not logged, and a
\* matched command was
C8_Witness ==
    /\ \E k \in 1..Len(handled) :
          /\ Completed(k)
          /\ CommandOf(k, TRUE) # HELP
          /\ CommandOf(k, FALSE) = HELP
          /\ HandlerCalls[k].text # default_response
          /\ \A l \in 1..Len(AllLogged) : AllLogged[l].uid # handled[k].uid
    /\ AllLogged # <<>>

\* the cleaned command is not help and no registry entry matches it in the
\* configured mode
Unmatched(command) ==
    /\ command # HELP
    /\ \A i \in 1..Len(commands) :
          IF exact_match THEN command # Lower(commands[i].command)
          ELSE ~Contains(Lower(commands[i].command), command)

\* C9: when the cleaned command of a handled event matches no registry entry
\* (help being the matcher's own case), one send is issued for the event and
\* its text is exactly the default response.
C9_UnmatchedGetsDefault ==
    /\ Len(HandlerCalls) = Len(handled)
    /\ \A k \in 1..Len(handled) :
          Unmatched(CommandOf(k, FALSE)) => HandlerCalls[k].text = default_response

\* C9 witness: an unmatched command has been answered, over a non-empty registry
C9_Witness ==
    /\ commands # <<>>
    /\ \E k \in 1..Len(handled) :
          Unmatched(CommandOf(k, FALSE)) /\ HandlerCalls[k].text = default_response

\* C10 as stated: in exact mode, for every registry name c, match_command(c)
\* returns the running response and match_command(c + x) returns none.
C10_ExactEveryName ==
    \A i \in 1..Len(commands) :
        LET c == commands[i].command
        IN  /\ match_command(c, commands, TRUE) = Some(RunningResponse)
            /\ match_command(c \o <<"x">>, commands, TRUE) = None

\* C10 amended: in exact mode, for every registry name c that is lower-case and
\* is not help, match_command(c) returns the running response; and for every
\* registry name c, match_command(c + x) returns none unless c + x is itself
\* the lower-cased name of a registry entry.
C10_ExactLowerCaseNames ==
    \A i \in 1..Len(commands) :
        LET c  == commands[i].command
            cx == c \o <<"x">>
        IN  /\ (c = Lower(c) /\ c # HELP)
                 => match_command(c, commands, TRUE) = Some(RunningResponse)
            /\ (\A j \in 1..Len(commands) : Lower(commands[j].command) # cx)
                 => match_command(cx, commands, TRUE) = None

\* C10 witness: in exact mode a registered name has been answered with the
\* running response and a name with trailing text with the default response
C10_Witness ==
    /\ exact_match
    /\ \E k \in 1..Len(handled) :
          /\ \E i \in 1..Len(commands) : commands[i].command = CommandOf(k, FALSE)
          /\ HandlerCalls[k].text = RunningResponse
    /\ \E k \in 1..Len(handled) :
          /\ \E i \in 1..Len(commands) :
                /\ Len(CommandOf(k, FALSE)) > Len(commands[i].command)
                /\ SubSeq(CommandOf(k, FALSE), 1, Len(commands[i].command))
                     = commands[i].command
          /\ HandlerCalls[k].text = default_response

(***************************************************************************)
(* The help listing and the substring mode of match_command.               *)
(***************************************************************************)
\* the first position at or after from where part stands in s, 0 if none
RECURSIVE FindFrom(_, _, _)
FindFrom(part, s, from) ==
    IF from + Len(part) - 1 > Len(s) THEN 0
    ELSE IF SubSeq(s, from, from + Len(part) - 1) = part THEN from
    ELSE FindFrom(part, s, from + 1)

\* the parts stand in s one after the other, without overlap, from position from on
RECURSIVE InOrder(_, _, _)
InOrder(parts, s, from) ==
    IF parts = <<>> THEN TRUE
    ELSE LET at == FindFrom(Head(parts), s, from)
         IN  at # 0 /\ InOrder(Tail(parts), s, at + Len(Head(parts)))

\* name and description of every registry entry, in registry order
RECURSIVE NamesAndDescriptions(_)
NamesAndDescriptions(cmds) ==
    IF cmds = <<>> THEN <<>>
    ELSE <<Head(cmds).command, Head(cmds).description>>
         \o NamesAndDescriptions(Tail(cmds))

\* C11: match_command("help") returns a listing in which the name and the
\* description of every registry entry stand, entry after entry in registry
\* order, and the listing is the same in exact and in substring mode.
C11_HelpListsRegistry ==
    LET listing == match_command(HELP, commands, exact_match)
    IN  /\ listing # None
        /\ InOrder(NamesAndDescriptions(commands), Val(listing), 1)
        /\ match_command(HELP, commands, TRUE) = match_command(HELP, commands, FALSE)

\* a help request has been answered with the listing of a registry of two
\* entries or more
C11_Witness ==
    \E k \in 1..Len(handled) :
        /\ Len(commands) >= 2
        /\ Completed(k)
        /\ CommandOf(k, FALSE) = HELP
        /\ Some(HandlerCalls[k].text) = match_command(HELP, commands, exact_match)

\* the lower-cased names of all registries, alone, followed by an argument,
\* inside a longer word and as registered, next to texts that hold no name
NameTexts ==
    UNION { UNION { { Lower(r[i].command),
                      Lower(r[i].command) \o <<" ","n","o","w">>,
                      <<"u","n">> \o Lower(r[i].command),
                      r[i].command } : i \in 1..Len(r) } : r \in Registries }
    \cup { <<>>, <<"x">>, <<"d">>, <<"h","e","l","p"," ","m","e">> }

\* the texts match_command is asked about: the ones above and the cleaned
\* commands of the events handled so far
SubstringCommands ==
    NameTexts \cup { CommandOf(k, FALSE) : k \in 1..Len(handled) }

\* C12: in substring mode, for every command text other than "help",
\* match_command returns "Running command..." exactly when the lower-cased
\* name of at least one registry entry occurs somewhere in the text, and
\* returns none otherwise.
C12_SubstringMode ==
    \A c \in SubstringCommands \ {HELP} :
        match_command(c, commands, FALSE) =
            IF \E i \in 1..Len(commands) :
                   FindFrom(Lower(commands[i].command), c, 1) # 0
            THEN Some(RunningResponse)
            ELSE None

\* in substring mode a registered name followed by arguments has been
\* answered with "Running command..."
C12_Witness ==
    \E k \in 1..Len(handled) :
        /\ ~exact_match
        /\ Completed(k)
        /\ \A i \in 1..Len(commands) : CommandOf(k, FALSE) # Lower(commands[i].command)
        /\ \E i \in 1..Len(commands) :
               FindFrom(Lower(commands[i].command), CommandOf(k, FALSE), 1) = 1
        /\ HandlerCalls[k].text = RunningResponse

(***************************************************************************)
(* The whisper selector.                                                   *)
(***************************************************************************)
\* text without the occurrence of the keyword that starts at position at
CutAt(text, at) ==
    SubSeq(text, 1, at - 1) \o SubSeq(text, at + Len(WHISPER), Len(text))

\* text without its first occurrence of the keyword
WithoutFirstWhisper(text) == CutAt(text, FindFrom(WHISPER, text, 1))

\* text without every occurrence of the keyword: the first occurrence is cut
\* and the search goes on behind it, never over text already joined
RECURSIVE WithoutEveryWhisper(_)
WithoutEveryWhisper(text) ==
    LET at == FindFrom(WHISPER, text, 1)
    IN  IF at = 0 THEN text
        ELSE SubSeq(text, 1, at - 1)
             \o WithoutEveryWhisper(SubSeq(text, at + Len(WHISPER), Len(text)))

\* texts with the keyword at the end, alone, twice, inside a word, nested in
\* itself, capitalised, and without it, next to the texts handle_command
\* passes for the events handled so far
WhisperTexts ==
    { DO \o <<" ">> \o WHISPER,
      WHISPER,
      <<" ">> \o WHISPER \o <<" ">>,
      WHISPER \o <<" ">> \o DO \o <<" ">> \o WHISPER,
      DO \o WHISPER \o <<"x">>,
      <<"w","h","i","s">> \o WHISPER \o <<"p","e","r">>,
      <<"W">> \o Tail(WHISPER),
      <<" ">> \o DO \o <<" ">>,
      <<>> }
    \cup { Strip(Lower(handled[k].msg.command)) : k \in 1..Len(handled) }

\* C13 as claimed: parse_whisper returns true and the text without the first
\* occurrence of "whisper", trimmed, when the keyword occurs, and false and
\* the text unchanged when it does not.
C13_FirstOccurrenceRemoved ==
    \A t \in WhisperTexts :
        parse_whisper(t) =
            IF FindFrom(WHISPER, t, 1) # 0
            THEN <<TRUE, Strip(WithoutFirstWhisper(t))>>
            ELSE <<FALSE, t>>

\* C13 amended: parse_whisper returns true and the text without every
\* occurrence of "whisper" found in one pass from the left, trimmed, when
\* the keyword occurs, and false and the text unchanged when it does not.
C13_EveryOccurrenceRemoved ==
    \A t \in WhisperTexts :
        parse_whisper(t) =
            IF FindFrom(WHISPER, t, 1) # 0
            THEN <<TRUE, Strip(WithoutEveryWhisper(t))>>
            ELSE <<FALSE, t>>

\* an event whose command holds the keyword twice has been answered with an
\* ephemeral help listing: nothing of the keyword was left in the command
C13_Witness ==
    \E k \in 1..Len(handled) :
        LET c  == Strip(Lower(handled[k].msg.command))
            at == FindFrom(WHISPER, c, 1)
        IN  /\ Completed(k)
            /\ at # 0
            /\ FindFrom(WHISPER, c, at + Len(WHISPER)) # 0
            /\ commands # <<>>
            /\ HandlerCalls[k].method = "chat.postEphemeral"
            /\ HandlerCalls[k].text = HelpListing(commands)

(***************************************************************************)
(* The mention parser.                                                     *)
(***************************************************************************)
\* position of the greater-than that closes a mention token standing at the
\* very start of text, 0 when none stands there: the token is less-than,
\* at-sign, an identity and greater-than, the identity being empty or W or U
\* followed by one character or more, all on one line
TokenClose(text) ==
    LET close == FindFrom(<<">">>, text, 3)
        id    == SubSeq(text, 3, close - 1)
    IN  IF /\ Len(text) >= 3
           /\ SubSeq(text, 1, 2) = <<"<","@">>
           /\ close # 0
           /\ \/ id = <<>>
              \/ /\ Head(id) \in {"W","U"}
                 /\ Len(id) >= 2
                 /\ \A i \in 1..Len(id) : id[i] # "\n"
        THEN close
        ELSE 0

\* text up to its first line break
FirstLine(text) ==
    LET nl == FindFrom(<<"\n">>, text, 1)
    IN  IF nl = 0 THEN text ELSE SubSeq(text, 1, nl - 1)

\* texts with the token at the start, later, on the second line, with several
\* tokens, with an empty and with a foreign identity, with the rest of the
\* message on one or on two lines, next to the texts of the events read in
\* the current cycle
MentionTexts ==
    { slack_events[i].text : i \in 1..Len(slack_events) }
    \cup { e.text : e \in Events }
    \cup { MentionOf(BotUser) \o <<" ">> \o DO \o <<" ">> \o MentionOf(OtherUser),
           MentionOf(OtherUser) \o MentionOf(BotUser) \o <<" ","x">>,
           MentionOf(<<>>) \o <<" ","h","i">>,
           MentionOf(<<"X","1">>) \o <<" ">> \o DO,
           MentionOf(BotUser),
           MentionOf(BotUser) \o <<"\n">> \o DO,
           <<" ">> \o MentionOf(BotUser) \o <<" ">> \o DO,
           <<"\n">> \o MentionOf(BotUser) \o <<" ">> \o DO,
           DO,
           <<>> }

\* C14: parse_direct_mention returns the mentioned identity and the trimmed
\* remainder of the text exactly when a mention token stands at the very
\* start of the text, the identity being that of this first token, and
\* returns none and none when no token stands there.
C14_MentionAtStart ==
    \A t \in MentionTexts :
        LET close == TokenClose(t)
        IN  parse_direct_mention(t) =
                IF close # 0
                THEN <<Some(SubSeq(t, 3, close - 1)),
                       Some(Strip(SubSeq(t, close + 1, Len(t))))>>
                ELSE <<None, None>>

\* what holds in place of C14: the remainder returned is the trimmed rest of
\* the line the token stands on, not of the whole text
C14_RestOfFirstLine ==
    \A t \in MentionTexts :
        LET close == TokenClose(t)
        IN  parse_direct_mention(t) =
                IF close # 0
                THEN <<Some(SubSeq(t, 3, close - 1)),
                       Some(Strip(FirstLine(SubSeq(t, close + 1, Len(t)))))>>
                ELSE <<None, None>>

\* an identity the pattern of the parser accepts: W or U followed by one
\* character or more, none of them a greater-than or a line break
MatchableId(id) ==
    /\ Len(id) >= 2
    /\ Head(id) \in {"W","U"}
    /\ \A i \in 1..Len(id) : id[i] \notin {">", "\n"}

\* the entries a read yields when the identity is one the pattern accepts,
\* each carrying the rest of the line the mention stands on
RECURSIVE FirstLineEntries(_, _, _)
FirstLineEntries(events, id, uid) ==
    IF events = <<>> THEN <<>>
    ELSE LET event == Head(events)
         IN  IF Actionable(event, id) /\ MatchableId(id)
             THEN <<[msg |-> [channel |-> event.channel, ts |-> event.ts,
                              user |-> event.user,
                              command |-> Lower(Strip(FirstLine(
                                  SubSeq(event.text, Len(id) + 4, Len(event.text))))),
                              whisper |-> None],
                     uid |-> uid]>>
                  \o FirstLineEntries(Tail(events), id, uid + 1)
             ELSE FirstLineEntries(Tail(events), id, uid)

\* what holds in place of C5: an entry is appended for an actionable event
\* only when the bot's identity starts with W or U, and it carries the rest of
\* the first line only
C5_EnqueueRestOfFirstLine ==
    [][(pc = "parse" /\ pc' = "process")
         => command_in' = command_in \o FirstLineEntries(slack_events', Val(_id), NextUid)]_vars

(***************************************************************************)
(* The registry, the poll cycle and transport failures.                    *)
(***************************************************************************)
\* the step is client.start(), the one operation that records the identity
IsStart == pc = "new" /\ pc' = "parse"

\* C15: parse_bot_commands, process_command_in with handle_command and
\* match_command, and the drain of the outbound log leave the commands list
\* (entries and order), the match mode and the recorded bot identity as they
\* were; the default response is a definition no step can change.
C15_RegistryReadOnly ==
    [][ /\ commands' = commands
        /\ exact_match' = exact_match
        /\ ~IsStart => _id' = _id ]_vars

\* a full cycle over a non-empty registry has run: events were read, handled,
\* answered from the registry and the log was drained
C15_Witness ==
    /\ pc = "sleep"
    /\ _id = Some(BotUser)
    /\ Len(commands) >= 2
    /\ handled # <<>>
    /\ printed # <<>>
    /\ \E k \in 1..Len(HandlerCalls) : HandlerCalls[k].text = HelpListing(commands)

\* C16: in every poll cycle the outbound log is drained completely and in
\* append order. When the loop sleeps command_out is empty and the entries
\* reported so far are the entries logged so far, each once and in the order
\* they were logged; the drain step reports the log from its first entry to
\* its last and leaves command_in and the sends issued as they were.
C16_DrainCompleteInOrder ==
    /\ [](pc = "sleep" =>
            /\ command_out = <<>>
            /\ Uids(printed) = ExpectedLog(Len(handled), FALSE))
    /\ [][(pc = "drain" /\ ~IsSendMessage) =>
            /\ printed' = printed \o command_out
            /\ command_in' = command_in
            /\ api_calls' = api_calls]_vars

\* the loop sleeps after a cycle that logged and reported two entries and
\* left an event in command_in
C16_Witness ==
    /\ pc = "sleep"
    /\ Len(printed) >= 2
    /\ command_in # <<>>
    /\ api_calls # <<>>

\* C17: an exception raised by the event read or by a send is caught nowhere.
\* It ends the step it was raised in (the event whose send failed is neither
\* removed from command_in nor logged) and ends the poll loop: from then on
\* nothing is read, handled, replied to or reported.
C17_FailureTerminates ==
    /\ [](raised # NoException => pc = "crashed")
    /\ [](FailedInHandler =>
            LET failed == handled[Len(handled)].uid
            IN  /\ failed \in QueuedUids
                /\ \A k \in 1..Len(AllLogged) : AllLogged[k].uid # failed)
    /\ [][pc = "crashed" =>
            /\ nread' = nread
            /\ handled' = handled
            /\ api_calls' = api_calls
            /\ printed' = printed]_vars

\* the second send of a drain has raised: one event was answered, the event
\* whose send failed and the ones behind it stay in command_in for good
C17_Witness ==
    /\ pc = "crashed"
    /\ FailedInHandler
    /\ Len(HandlerCalls) >= 2
    /\ Len(command_in) >= 2

(***************************************************************************)
(* Structurally identical events.                                          *)
(***************************************************************************)
\* the queued event numbered u has a twin in command_in: another entry with
\* the same channel, ts, user and command
HasTwin(u) ==
    \E i, j \in 1..Len(command_in) :
        /\ command_in[i].uid = u
        /\ command_in[j].uid # u
        /\ command_in[j].msg = command_in[i].msg

\* the event numbered u has been passed to handle_command and its send returned
Answered(u) ==
    \E k \in 1..Len(handled) : handled[k].uid = u /\ Completed(k)

\* C18: two structurally identical events in command_in get a reply each.
\* A drain never removes a queued twin it has not handled, it issues one send
\* per event it handles, no event is handled twice, and with the loop cycling
\* every queued twin is in the end handled and answered unless an exception
\* ends the loop.
C18_TwinsBothAnswered ==
    /\ [][(pc = "process" /\ ~IsSendMessage) =>
            LET NewUids == { handled'[k].uid : k \in (Len(handled)+1)..Len(handled') }
            IN  /\ \A u \in QueuedUids :
                       HasTwin(u) => (u \in NewUids \/ u \in QueuedUids')
                /\ Len(api_calls') - Len(api_calls) = Len(handled') - Len(handled)]_vars
    /\ [](\A k, l \in 1..Len(handled) : k # l => handled[k].uid # handled[l].uid)
    /\ \A u \in 1..MaxEvents :
           (u \in QueuedUids /\ HasTwin(u)) ~> (Answered(u) \/ raised # NoException)

\* two structurally identical events have both been handled, each with a send
\* of its own that returned
C18_Witness ==
    \E k, l \in 1..Len(handled) :
        /\ k # l
        /\ handled[k].msg = handled[l].msg
        /\ handled[k].uid # handled[l].uid
        /\ Completed(k) /\ Completed(l)
        /\ HandlerCalls[k] = HandlerCalls[l]
        /\ Len(HandlerCalls) = Len(handled)

(***************************************************************************)
(* Help over every registry.                                               *)
(***************************************************************************)
\* C19: a handled event whose cleaned command is "help" is answered with the
\* help listing built from the registry and never with the default response,
\* whatever the registry, the empty one included.
C19_HelpNeverDefault ==
    \A k \in 1..Len(handled) :
        (Completed(k) /\ CommandOf(k, FALSE) = HELP) =>
            /\ HandlerCalls[k].text = HelpListing(commands)
            /\ HandlerCalls[k].text # default_response

====
